---- MODULE Spec2Model ----
(***************************************************************************)
(* A model of inventory_system.py: an in-memory inventory (an insertion-   *)
(* ordered mapping from item name to quantity), the operations on it, its  *)
(* JSON persistence, and the session driver main().                        *)
(*                                                                         *)
(* Three specifications share the variables:                               *)
(*   Spec        a caller applying add_item / remove_item / get_qty /      *)
(*               check_low_items / print_data with arbitrary arguments;    *)
(*   PersistSpec save_data / load_data over a file, from any bounded       *)
(*               inventory and any initial file;                           *)
(*   MainSpec    the fixed call sequence of main().                        *)
(***************************************************************************)
EXTENDS Integers, Sequences, FiniteSets, TLC

VARIABLES
    stock_data,   \* the inventory dict: a sequence of [k, v] in insertion order
    logs,         \* the caller's log list (session_logs in main)
    file,         \* the file at the inventory path
    raised,       \* the exception that ended the program, "none" while it runs
    call,         \* the last call made: its arguments and what it returned
    pre,          \* stock_data, logs and file as they were before that call
    added,        \* how many add_item calls so far passed both validations
    clock,        \* how many times datetime.now() has been read
    saved,        \* the inventory the file holds since the last completed save
    pc            \* the statement main() is at; 0 outside MainSpec

vars == <<stock_data, logs, file, raised, call, pre, added, clock, saved, pc>>

----------------------------------------------------------------------------
(* Bounds of the model *)

MaxQty == 2        \* add_item is not called once a quantity would exceed this
MaxLogs == 2       \* add_item is not called once the log would exceed this
MaxPartial == 2    \* a failed write leaves at most this many characters
MaxEntries == 2    \* PersistSpec starts from inventories of at most this many keys

----------------------------------------------------------------------------
(* Python values passed as arguments: str, int and bool (a subclass of int) *)

PyStr(s) == [t |-> "str", s |-> s, n |-> 0]
PyInt(n) == [t |-> "int", s |-> <<>>, n |-> n]
PyBool(b) == [t |-> "bool", s |-> <<>>, n |-> IF b THEN 1 ELSE 0]
PyNone == [t |-> "none", s |-> <<>>, n |-> 0]

\* isinstance(x, str)
IsInstanceStr(x) == x.t = "str"

\* isinstance(x, int): bool is a subclass of int
IsInstanceInt(x) == x.t \in {"int", "bool"}

\* not x, for the values above
Falsy(x) ==
    CASE x.t = "str" -> x.s = <<>>
      [] x.t \in {"int", "bool"} -> x.n = 0
      [] OTHER -> TRUE

----------------------------------------------------------------------------
(* dict operations on an insertion-ordered mapping *)

Keys(d) == {d[i].k : i \in 1..Len(d)}

\* the position of key k in d, 0 when absent
IndexOf(d, k) ==
    IF \E i \in 1..Len(d) : d[i].k = k
    THEN CHOOSE i \in 1..Len(d) : d[i].k = k
    ELSE 0

\* d.get(k, default)
Get(d, k, default) == IF IndexOf(d, k) = 0 THEN default ELSE d[IndexOf(d, k)].v

\* d[k] = v: an existing key keeps its position, a new key goes last
SetItem(d, k, v) ==
    IF IndexOf(d, k) = 0
    THEN Append(d, [k |-> k, v |-> v])
    ELSE [d EXCEPT ![IndexOf(d, k)].v = v]

\* del d[k], for a key that is present
DelItem(d, k) ==
    LET i == IndexOf(d, k)
    IN  SubSeq(d, 1, i - 1) \o SubSeq(d, i + 1, Len(d))

----------------------------------------------------------------------------
(* Text: sequences of one-character strings *)

Digit(n) == <<"0", "1", "2", "3", "4", "5", "6", "7", "8", "9">>[n + 1]

RECURSIVE NatToChars(_)
NatToChars(n) ==
    IF n < 10 THEN <<Digit(n)>> ELSE NatToChars(n \div 10) \o <<Digit(n % 10)>>

\* str(n) for an int
IntToChars(n) == IF n < 0 THEN <<"-">> \o NatToChars(-n) ELSE NatToChars(n)

\* f"{qty}": an int prints its digits, a bool prints True or False
Format(x) ==
    CASE x.t = "bool" -> IF x.n = 1 THEN <<"T", "r", "u", "e">>
                                     ELSE <<"F", "a", "l", "s", "e">>
      [] x.t = "int" -> IntToChars(x.n)
      [] OTHER -> x.s

----------------------------------------------------------------------------
(* add_item, remove_item, get_qty, check_low_items, print_data *)

\* add_item storing qty instead of adding it to the stored quantity
add_item_overwrites(sd, item, qty, lg, now) ==
    IF ~IsInstanceStr(item) \/ Falsy(item)
    THEN [stock_data |-> sd, logs |-> lg, diag |-> "invalid item name"]
    ELSE IF ~IsInstanceInt(qty) \/ qty.n <= 0
    THEN [stock_data |-> sd, logs |-> lg, diag |-> "invalid quantity"]
    ELSE [stock_data |-> SetItem(sd, item.s, qty.n),
          logs |-> Append(lg, [ts |-> now, qty |-> Format(qty), item |-> item.s]),
          diag |-> "none"]

\* add_item rejecting only negative quantities (qty < 0 for qty <= 0)
add_item_accepts_zero(sd, item, qty, lg, now) ==
    IF ~IsInstanceStr(item) \/ Falsy(item)
    THEN [stock_data |-> sd, logs |-> lg, diag |-> "invalid item name"]
    ELSE IF ~IsInstanceInt(qty) \/ qty.n < 0
    THEN [stock_data |-> sd, logs |-> lg, diag |-> "invalid quantity"]
    ELSE [stock_data |-> SetItem(sd, item.s, Get(sd, item.s, 0) + qty.n),
          logs |-> Append(lg, [ts |-> now, qty |-> Format(qty), item |-> item.s]),
          diag |-> "none"]

\* add_item writing its log entry before it validates the quantity
add_item_logs_early(sd, item, qty, lg, now) ==
    IF ~IsInstanceStr(item) \/ Falsy(item)
    THEN [stock_data |-> sd, logs |-> lg, diag |-> "invalid item name"]
    ELSE IF ~IsInstanceInt(qty) \/ qty.n <= 0
    THEN [stock_data |-> sd,
          logs |-> Append(lg, [ts |-> now, qty |-> Format(qty), item |-> item.s]),
          diag |-> "invalid quantity"]
    ELSE [stock_data |-> SetItem(sd, item.s, Get(sd, item.s, 0) + qty.n),
          logs |-> Append(lg, [ts |-> now, qty |-> Format(qty), item |-> item.s]),
          diag |-> "none"]

\* add_item(stock_data, item, qty, logs) with datetime.now() = now, for a
\* caller that passes its log list (with logs=None the entry goes to a list
\* the caller never sees)
add_item(sd, item, qty, lg, now) ==
    IF ~IsInstanceStr(item) \/ Falsy(item)
    THEN [stock_data |-> sd, logs |-> lg, diag |-> "invalid item name"]
    ELSE IF ~IsInstanceInt(qty) \/ qty.n <= 0
    THEN [stock_data |-> sd, logs |-> lg, diag |-> "invalid quantity"]
    ELSE [stock_data |-> SetItem(sd, item.s, Get(sd, item.s, 0) + qty.n),
          logs |-> Append(lg, [ts |-> now, qty |-> Format(qty), item |-> item.s]),
          diag |-> "none"]

\* remove_item deleting only below zero (< 0 for <= 0)
remove_item_keeps_zero(sd, item, qty) ==
    IF ~IsInstanceStr(item) \/ Falsy(item)
    THEN [stock_data |-> sd, diag |-> "invalid item name", raised |-> "none"]
    ELSE IF ~IsInstanceInt(qty) \/ qty.n <= 0
    THEN [stock_data |-> sd, diag |-> "invalid quantity", raised |-> "none"]
    ELSE IF IndexOf(sd, item.s) = 0
    THEN [stock_data |-> sd, diag |-> "none", raised |-> "none"]
    ELSE LET dec == SetItem(sd, item.s, Get(sd, item.s, 0) - qty.n)
         IN  [stock_data |-> IF Get(dec, item.s, 0) < 0
                             THEN DelItem(dec, item.s) ELSE dec,
              diag |-> "none", raised |-> "none"]

\* remove_item deleting the key whenever it is present
remove_item_always_deletes(sd, item, qty) ==
    IF ~IsInstanceStr(item) \/ Falsy(item)
    THEN [stock_data |-> sd, diag |-> "invalid item name", raised |-> "none"]
    ELSE IF ~IsInstanceInt(qty) \/ qty.n <= 0
    THEN [stock_data |-> sd, diag |-> "invalid quantity", raised |-> "none"]
    ELSE IF IndexOf(sd, item.s) = 0
    THEN [stock_data |-> sd, diag |-> "none", raised |-> "none"]
    ELSE [stock_data |-> DelItem(sd, item.s), diag |-> "none", raised |-> "none"]

\* remove_item without the except KeyError clause
remove_item_raises_keyerror(sd, item, qty) ==
    IF ~IsInstanceStr(item) \/ Falsy(item)
    THEN [stock_data |-> sd, diag |-> "invalid item name", raised |-> "none"]
    ELSE IF ~IsInstanceInt(qty) \/ qty.n <= 0
    THEN [stock_data |-> sd, diag |-> "invalid quantity", raised |-> "none"]
    ELSE IF IndexOf(sd, item.s) = 0
    THEN [stock_data |-> sd, diag |-> "none", raised |-> "KeyError"]
    ELSE LET dec == SetItem(sd, item.s, Get(sd, item.s, 0) - qty.n)
         IN  [stock_data |-> IF Get(dec, item.s, 0) <= 0
                             THEN DelItem(dec, item.s) ELSE dec,
              diag |-> "none", raised |-> "none"]

\* remove_item(stock_data, item, qty)
remove_item(sd, item, qty) ==
    IF ~IsInstanceStr(item) \/ Falsy(item)
    THEN [stock_data |-> sd, diag |-> "invalid item name", raised |-> "none"]
    ELSE IF ~IsInstanceInt(qty) \/ qty.n <= 0
    THEN [stock_data |-> sd, diag |-> "invalid quantity", raised |-> "none"]
    ELSE IF IndexOf(sd, item.s) = 0
    THEN [stock_data |-> sd, diag |-> "none", raised |-> "none"]  \* KeyError, passed
    ELSE LET dec == SetItem(sd, item.s, Get(sd, item.s, 0) - qty.n)
         IN  [stock_data |-> IF Get(dec, item.s, 0) <= 0
                             THEN DelItem(dec, item.s) ELSE dec,
              diag |-> "none", raised |-> "none"]

\* get_qty(stock_data, item): a key that is no str equals no stored key
get_qty(sd, item) == IF IsInstanceStr(item) THEN Get(sd, item.s, 0) ELSE 0

RECURSIVE LowFrom(_, _, _)
LowFrom(sd, threshold, i) ==
    IF i > Len(sd) THEN <<>>
    ELSE (IF sd[i].v < threshold THEN <<sd[i].k>> ELSE <<>>)
         \o LowFrom(sd, threshold, i + 1)

\* check_low_items comparing with <= for <
check_low_items_inclusive(sd, threshold) == LowFrom(sd, threshold + 1, 1)

\* check_low_items(stock_data, threshold)
check_low_items(sd, threshold) == LowFrom(sd, threshold, 1)

\* print_data(stock_data): the lines written to standard output
print_data(sd) ==
    <<[text |-> "--- Items Report ---", item |-> <<>>, qty |-> <<>>]>>
    \o (IF sd = <<>>
        THEN <<[text |-> "Inventory is empty.", item |-> <<>>, qty |-> <<>>]>>
        ELSE <<>>)
    \o [i \in 1..Len(sd) |-> [text |-> " -> ", item |-> sd[i].k,
                              qty |-> IntToChars(sd[i].v)]]
    \o <<[text |-> "--------------------", item |-> <<>>, qty |-> <<>>]>>

----------------------------------------------------------------------------
(* json.dump(stock_data, f, indent=4) and json.load(f), on the JSON that   *)
(* an inventory file holds: an object whose members are integers           *)

\* one character of a JSON string, escaped as ensure_ascii does
EscapeChar(c) ==
    CASE c = "\"" -> <<"\\", "\"">>
      [] c = "\\" -> <<"\\", "\\">>
      [] c = "\n" -> <<"\\", "n">>
      [] OTHER -> <<c>>

RECURSIVE EscapeFrom(_, _)
EscapeFrom(s, i) ==
    IF i > Len(s) THEN <<>> ELSE EscapeChar(s[i]) \o EscapeFrom(s, i + 1)

\* a key written with its characters unescaped
EncodeString_unescaped(s) == <<"\"">> \o s \o <<"\"">>

\* a str as a JSON string
EncodeString(s) == <<"\"">> \o EscapeFrom(s, 1) \o <<"\"">>

Indent == <<" ", " ", " ", " ">>

RECURSIVE MembersFrom(_, _)
MembersFrom(sd, i) ==
    Indent \o EncodeString(sd[i].k) \o <<":", " ">> \o IntToChars(sd[i].v)
    \o (IF i = Len(sd) THEN <<>> ELSE <<",", "\n">> \o MembersFrom(sd, i + 1))

\* json.dumps(stock_data, indent=4)
json_dumps(sd) ==
    IF sd = <<>> THEN <<"{", "}">>
    ELSE <<"{", "\n">> \o MembersFrom(sd, 1) \o <<"\n", "}">>

Whitespace == {" ", "\n", "\t", "\r"}

Digits == {"0", "1", "2", "3", "4", "5", "6", "7", "8", "9"}

DigitValue(c) == CHOOSE n \in 0..9 : Digit(n) = c

Failed == [ok |-> FALSE, val |-> <<>>, next |-> 0]

\* the first position at or after i that holds no whitespace
RECURSIVE SkipWs(_, _)
SkipWs(t, i) ==
    IF i <= Len(t) /\ t[i] \in Whitespace THEN SkipWs(t, i + 1) ELSE i

\* the characters of a JSON string whose opening quote is before position i
RECURSIVE ScanString(_, _, _)
ScanString(t, i, acc) ==
    IF i > Len(t) THEN Failed
    ELSE IF t[i] = "\"" THEN [ok |-> TRUE, val |-> acc, next |-> i + 1]
    ELSE IF t[i] \in {"\n", "\t", "\r"} THEN Failed
    ELSE IF t[i] = "\\"
    THEN IF i + 1 > Len(t) THEN Failed
         ELSE IF t[i + 1] \in {"\"", "\\", "/"}
         THEN ScanString(t, i + 2, Append(acc, t[i + 1]))
         ELSE IF t[i + 1] = "n" THEN ScanString(t, i + 2, Append(acc, "\n"))
         ELSE Failed
    ELSE ScanString(t, i + 1, Append(acc, t[i]))

RECURSIVE ScanDigits(_, _, _)
ScanDigits(t, i, acc) ==
    IF i <= Len(t) /\ t[i] \in Digits
    THEN ScanDigits(t, i + 1, 10 * acc + DigitValue(t[i]))
    ELSE [ok |-> TRUE, val |-> acc, next |-> i]

\* a JSON integer at position i: -? (0 | [1-9][0-9]*)
ScanNumber(t, i) ==
    LET neg == i <= Len(t) /\ t[i] = "-"
        j == IF neg THEN i + 1 ELSE i
    IN  IF j > Len(t) \/ t[j] \notin Digits THEN Failed
        ELSE LET d == IF t[j] = "0"
                      THEN [ok |-> TRUE, val |-> 0, next |-> j + 1]
                      ELSE ScanDigits(t, j, 0)
             IN  [d EXCEPT !.val = IF neg THEN -d.val ELSE d.val]

\* the members of an object, from the key at position i; a repeated key
\* keeps its first position and takes the last value
RECURSIVE ScanMembers(_, _, _)
ScanMembers(t, i, acc) ==
    IF i > Len(t) \/ t[i] # "\"" THEN Failed
    ELSE LET key == ScanString(t, i + 1, <<>>)
         IN  IF ~key.ok THEN Failed
             ELSE LET c == SkipWs(t, key.next)
                  IN  IF c > Len(t) \/ t[c] # ":" THEN Failed
                      ELSE LET num == ScanNumber(t, SkipWs(t, c + 1))
                           IN  IF ~num.ok THEN Failed
                               ELSE LET e == SkipWs(t, num.next)
                                        got == SetItem(acc, key.val, num.val)
                                    IN  IF e > Len(t) THEN Failed
                                        ELSE IF t[e] = "}"
                                        THEN [ok |-> TRUE, val |-> got, next |-> e + 1]
                                        ELSE IF t[e] = ","
                                        THEN ScanMembers(t, SkipWs(t, e + 1), got)
                                        ELSE Failed

\* json.loads(text): ok is FALSE where it raises JSONDecodeError
json_loads(t) ==
    LET i == SkipWs(t, 1)
    IN  IF i > Len(t) \/ t[i] # "{" THEN Failed
        ELSE LET j == SkipWs(t, i + 1)
                 obj == IF j <= Len(t) /\ t[j] = "}"
                        THEN [ok |-> TRUE, val |-> <<>>, next |-> j + 1]
                        ELSE ScanMembers(t, j, <<>>)
             IN  IF obj.ok /\ SkipWs(t, obj.next) = Len(t) + 1 THEN obj ELSE Failed

----------------------------------------------------------------------------
(* The file, load_data and save_data *)

\* a file is missing, or holds text, or holds bytes that are no UTF-8 text;
\* readable is whether open(file, "r") is permitted
TextFile(t, r) == [kind |-> "text", text |-> t, readable |-> r]

BytesFile == [kind |-> "bytes", text |-> <<>>, readable |-> TRUE]

\* load_data(file)
load_data(f) ==
    IF f.kind = "missing"
    THEN [ret |-> <<>>, diag |-> "not found", raised |-> "none"]
    ELSE IF ~f.readable
    THEN [ret |-> <<>>, diag |-> "none", raised |-> "PermissionError"]
    ELSE IF f.kind = "bytes"
    THEN [ret |-> <<>>, diag |-> "none", raised |-> "UnicodeDecodeError"]
    ELSE IF json_loads(f.text).ok
    THEN [ret |-> json_loads(f.text).val, diag |-> "none", raised |-> "none"]
    ELSE [ret |-> <<>>, diag |-> "could not decode", raised |-> "none"]

\* save_data(stock_data, file): open(file, "w") either fails and leaves the
\* file as it was, or empties the file; the write then completes, or fails
\* after n characters
save_data(sd, f, outcome, n) ==
    CASE outcome = "open fails" ->
           [file |-> f, diag |-> "could not save"]
      [] outcome = "write fails" ->
           [file |-> TextFile(SubSeq(json_dumps(sd), 1, n),
                              IF f.kind = "missing" THEN TRUE ELSE f.readable),
            diag |-> "could not save"]
      [] OTHER ->
           [file |-> TextFile(json_dumps(sd),
                              IF f.kind = "missing" THEN TRUE ELSE f.readable),
            diag |-> "none"]

----------------------------------------------------------------------------
(* The caller of Spec: any operation, any arguments *)

Items == {PyStr(<<>>), PyStr(<<"a">>), PyStr(<<"b">>), PyInt(123)}

\* the quantities passed to add_item and to remove_item
AddQtys == {PyInt(0), PyInt(1), PyBool(TRUE), PyStr(<<"t", "w", "o">>)}

RemoveQtys == {PyInt(0), PyInt(1), PyInt(2), PyStr(<<"t", "w", "o">>)}

DefaultThreshold == 5

Thresholds == (-1..(MaxQty + 1)) \cup {DefaultThreshold}

\* what load_data can hand to the caller: an empty mapping, or the mapping
\* of a file that was not written by save_data
InitialStocks == {<<>>, <<[k |-> <<"a">>, v |-> 0]>>}

\* a non-empty text
ValidItem(item) == item.t = "str" /\ Len(item.s) > 0

\* a positive integer; Python's True is the integer 1
ValidQty(qty) == qty.t \in {"int", "bool"} /\ qty.n >= 1

NoCall == [op |-> "none", item |-> PyNone, qty |-> PyNone, th |-> 0,
           ret |-> <<>>, diag |-> "none"]

NotSaved == [valid |-> FALSE, inv |-> <<>>]

Snapshot == [stock_data |-> stock_data, logs |-> logs, file |-> file]

Missing == [kind |-> "missing", text |-> <<>>, readable |-> TRUE]

Init ==
    /\ stock_data \in InitialStocks
    /\ logs = <<>>
    /\ file = Missing
    /\ raised = "none"
    /\ call = NoCall
    /\ pre = Snapshot
    /\ added = 0
    /\ clock = 0
    /\ saved = NotSaved
    /\ pc = 0

InBounds(sd, lg) ==
    /\ \A i \in 1..Len(sd) : sd[i].v <= MaxQty
    /\ Len(lg) <= MaxLogs

\* add_item(stock_data, item, qty, session_logs)
AddItem ==
    \E item \in Items, qty \in AddQtys :
        LET r == add_item(stock_data, item, qty, logs, clock)
        IN  /\ raised = "none"
            /\ InBounds(r.stock_data, r.logs)
            /\ stock_data' = r.stock_data
            /\ logs' = r.logs
            /\ call' = [NoCall EXCEPT !.op = "add_item", !.item = item,
                                      !.qty = qty, !.diag = r.diag]
            /\ pre' = Snapshot
            /\ added' = IF ValidItem(item) /\ ValidQty(qty) THEN added + 1 ELSE added
            /\ clock' = IF r.logs = logs THEN clock ELSE clock + 1
            /\ UNCHANGED <<file, raised, saved, pc>>

\* remove_item(stock_data, item, qty)
RemoveItem ==
    \E item \in Items, qty \in RemoveQtys :
        LET r == remove_item(stock_data, item, qty)
        IN  /\ raised = "none"
            /\ stock_data' = r.stock_data
            /\ call' = [NoCall EXCEPT !.op = "remove_item", !.item = item,
                                      !.qty = qty, !.diag = r.diag]
            /\ pre' = Snapshot
            /\ raised' = r.raised
            /\ UNCHANGED <<logs, file, added, clock, saved, pc>>

\* get_qty(stock_data, item)
GetQty ==
    \E item \in Items :
        /\ raised = "none"
        /\ call' = [NoCall EXCEPT !.op = "get_qty", !.item = item,
                                  !.ret = get_qty(stock_data, item)]
        /\ pre' = Snapshot
        /\ UNCHANGED <<stock_data, logs, file, raised, added, clock, saved, pc>>

\* check_low_items(stock_data, threshold)
CheckLowItems ==
    \E th \in Thresholds :
        /\ raised = "none"
        /\ call' = [NoCall EXCEPT !.op = "check_low_items", !.th = th,
                                  !.ret = check_low_items(stock_data, th)]
        /\ pre' = Snapshot
        /\ UNCHANGED <<stock_data, logs, file, raised, added, clock, saved, pc>>

\* print_data(stock_data)
PrintData ==
    /\ raised = "none"
    /\ call' = [NoCall EXCEPT !.op = "print_data", !.ret = print_data(stock_data)]
    /\ pre' = Snapshot
    /\ UNCHANGED <<stock_data, logs, file, raised, added, clock, saved, pc>>

Next == AddItem \/ RemoveItem \/ GetQty \/ CheckLowItems \/ PrintData

Spec == Init /\ [][Next]_vars

----------------------------------------------------------------------------
(* PersistSpec: save_data and load_data, from any inventory of at most     *)
(* MaxEntries string keys and any initial file                             *)

\* keys: a letter, a quote, a backslash followed by n, and the empty string
PersistKeys == {<<"a">>, <<"\"">>, <<"\\", "n">>, <<>>}

PersistValues == {-12, 1, 305}

PersistEntries == [k : PersistKeys, v : PersistValues]

PersistStocks ==
    UNION {{sd \in [1..n -> PersistEntries] :
               \A i \in 1..n : \A j \in 1..n : i # j => sd[i].k # sd[j].k}
           : n \in 0..MaxEntries}

\* a file another program wrote: {"a":0}
ForeignText == <<"{", "\"", "a", "\"", ":", "0", "}">>

InitialFiles ==
    {Missing, BytesFile, TextFile(ForeignText, TRUE), TextFile(ForeignText, FALSE)}

PersistInit ==
    /\ stock_data \in PersistStocks
    /\ logs = <<>>
    /\ file \in InitialFiles
    /\ raised = "none"
    /\ call = NoCall
    /\ pre = Snapshot
    /\ added = 0
    /\ clock = 0
    /\ saved = NotSaved
    /\ pc = 0

\* stock_data = load_data()
LoadData ==
    LET r == load_data(file)
    IN  /\ raised = "none"
        /\ raised' = r.raised
        /\ stock_data' = IF r.raised = "none" THEN r.ret ELSE stock_data
        /\ call' = [NoCall EXCEPT !.op = "load_data", !.ret = r.ret,
                                  !.diag = r.diag]
        /\ pre' = Snapshot
        /\ UNCHANGED <<logs, file, added, clock, saved>>

SaveOutcomes == {"ok", "open fails", "write fails"}

\* save_data(stock_data)
SaveData ==
    \E outcome \in SaveOutcomes, n \in 0..MaxPartial :
        LET r == save_data(stock_data, file, outcome, n)
        IN  /\ raised = "none"
            /\ n < Len(json_dumps(stock_data))
            /\ outcome # "write fails" => n = 0
            /\ file' = r.file
            /\ saved' = CASE outcome = "ok" -> [valid |-> TRUE, inv |-> stock_data]
                          [] outcome = "write fails" -> NotSaved
                          [] OTHER -> saved
            /\ call' = [NoCall EXCEPT !.op = "save_data", !.diag = r.diag]
            /\ pre' = Snapshot
            /\ UNCHANGED <<stock_data, logs, raised, added, clock>>

PersistLoad == LoadData /\ UNCHANGED pc

PersistSave == SaveData /\ UNCHANGED pc

PersistNext == PersistLoad \/ PersistSave

PersistSpec == PersistInit /\ [][PersistNext]_vars

----------------------------------------------------------------------------
(* MainSpec: main(), one step per statement *)

Apple == PyStr(<<"a", "p", "p", "l", "e">>)
Banana == PyStr(<<"b", "a", "n", "a", "n", "a">>)
Orange == PyStr(<<"o", "r", "a", "n", "g", "e">>)

Stmt(op, item, qty) == [op |-> op, item |-> item, qty |-> qty]

\* the statements of main() in order
Script ==
    << Stmt("load_data", PyNone, PyNone),
       Stmt("print_data", PyNone, PyNone),
       Stmt("add_item", Apple, PyInt(10)),
       Stmt("add_item", Banana, PyInt(15)),
       Stmt("add_item", Banana, PyInt(-2)),
       Stmt("add_item", PyInt(123), PyStr(<<"t", "e", "n">>)),
       Stmt("remove_item", Apple, PyInt(3)),
       Stmt("remove_item", Orange, PyInt(1)),
       Stmt("remove_item", Banana, PyStr(<<"t", "w", "o">>)),
       Stmt("get_qty", Apple, PyNone),
       Stmt("check_low_items", PyNone, PyNone),
       Stmt("print_data", PyNone, PyNone),
       Stmt("print_logs", PyNone, PyNone),
       Stmt("save_data", PyNone, PyNone),
       Stmt("print_saved", PyNone, PyNone) >>

\* the inventories the file may hold when main() starts
MainValues == {1, 3}

MainEntries == [k : {Apple.s, Banana.s, Orange.s}, v : MainValues]

MainStocks ==
    UNION {{sd \in [1..n -> MainEntries] :
               \A i \in 1..n : \A j \in 1..n : i # j => sd[i].k # sd[j].k}
           : n \in 0..MaxEntries}

MainFiles == InitialFiles \cup {TextFile(json_dumps(sd), TRUE) : sd \in MainStocks}

MainInit ==
    /\ stock_data = <<>>
    /\ logs = <<>>
    /\ file \in MainFiles
    /\ raised = "none"
    /\ call = NoCall
    /\ pre = Snapshot
    /\ added = 0
    /\ clock = 0
    /\ saved = NotSaved
    /\ pc = 1

\* main() is at a statement calling op
At(op) == raised = "none" /\ pc \in 1..Len(Script) /\ Script[pc].op = op

MainLoad ==
    /\ At("load_data")
    /\ LoadData
    /\ pc' = IF raised' = "none" THEN pc + 1 ELSE pc

MainPrint ==
    /\ At("print_data")
    /\ call' = [NoCall EXCEPT !.op = "print_data", !.ret = print_data(stock_data)]
    /\ pre' = Snapshot
    /\ pc' = pc + 1
    /\ UNCHANGED <<stock_data, logs, file, raised, added, clock, saved>>

MainAdd ==
    /\ At("add_item")
    /\ LET item == Script[pc].item
           qty == Script[pc].qty
           r == add_item(stock_data, item, qty, logs, clock)
       IN  /\ stock_data' = r.stock_data
           /\ logs' = r.logs
           /\ call' = [NoCall EXCEPT !.op = "add_item", !.item = item,
                                     !.qty = qty, !.diag = r.diag]
           /\ added' = IF ValidItem(item) /\ ValidQty(qty) THEN added + 1 ELSE added
           /\ clock' = IF r.logs = logs THEN clock ELSE clock + 1
    /\ pre' = Snapshot
    /\ pc' = pc + 1
    /\ UNCHANGED <<file, raised, saved>>

MainRemove ==
    /\ At("remove_item")
    /\ LET item == Script[pc].item
           qty == Script[pc].qty
           r == remove_item(stock_data, item, qty)
       IN  /\ stock_data' = r.stock_data
           /\ raised' = r.raised
           /\ call' = [NoCall EXCEPT !.op = "remove_item", !.item = item,
                                     !.qty = qty, !.diag = r.diag]
    /\ pre' = Snapshot
    /\ pc' = IF raised' = "none" THEN pc + 1 ELSE pc
    /\ UNCHANGED <<logs, file, added, clock, saved>>

MainGetQty ==
    /\ At("get_qty")
    /\ call' = [NoCall EXCEPT !.op = "get_qty", !.item = Script[pc].item,
                              !.ret = get_qty(stock_data, Script[pc].item)]
    /\ pre' = Snapshot
    /\ pc' = pc + 1
    /\ UNCHANGED <<stock_data, logs, file, raised, added, clock, saved>>

MainCheckLow ==
    /\ At("check_low_items")
    /\ call' = [NoCall EXCEPT !.op = "check_low_items", !.th = DefaultThreshold,
                  !.ret = check_low_items(stock_data, DefaultThreshold)]
    /\ pre' = Snapshot
    /\ pc' = pc + 1
    /\ UNCHANGED <<stock_data, logs, file, raised, added, clock, saved>>

\* the transaction log, or "No transactions logged."
MainPrintLogs ==
    /\ At("print_logs")
    /\ call' = [NoCall EXCEPT !.op = "print_logs",
                  !.ret = IF logs # <<>> THEN logs
                          ELSE <<[ts |-> 0, qty |-> <<>>, item |-> <<>>]>>]
    /\ pre' = Snapshot
    /\ pc' = pc + 1
    /\ UNCHANGED <<stock_data, logs, file, raised, added, clock, saved>>

MainSave ==
    /\ At("save_data")
    /\ SaveData
    /\ pc' = pc + 1

\* print("Inventory saved to 'inventory.json'.")
MainPrintSaved ==
    /\ At("print_saved")
    /\ call' = [NoCall EXCEPT !.op = "print_saved"]
    /\ pre' = Snapshot
    /\ pc' = pc + 1
    /\ UNCHANGED <<stock_data, logs, file, raised, added, clock, saved>>

MainNext ==
    \/ MainLoad \/ MainPrint \/ MainAdd \/ MainRemove \/ MainGetQty
    \/ MainCheckLow \/ MainPrintLogs \/ MainSave \/ MainPrintSaved

MainSpec == MainInit /\ [][MainNext]_vars

----------------------------------------------------------------------------
(* Properties of the in-memory operations, checked under Spec *)

AllPositive(sd) == \A i \in 1..Len(sd) : sd[i].v > 0

IsMutation == call.op \in {"add_item", "remove_item"}

ValidCall == ValidItem(call.item) /\ ValidQty(call.qty)

\* the mapping d without the entry of key k
Without(d, k) == SelectSeq(d, LAMBDA e : e.k # k)

\* C1: an add_item or remove_item call, whatever its arguments, takes an
\* inventory whose quantities are all strictly positive to one whose
\* quantities are all strictly positive; so from such an inventory no
\* sequence of calls ever stores a zero or negative quantity.
C1_QuantitiesStayPositive ==
    (IsMutation /\ AllPositive(pre.stock_data)) => AllPositive(stock_data)

\* a removal that took a positive quantity exactly to zero
C1_Witness ==
    /\ call.op = "remove_item" /\ ValidCall
    /\ AllPositive(pre.stock_data)
    /\ IndexOf(pre.stock_data, call.item.s) # 0
    /\ Get(pre.stock_data, call.item.s, 0) = call.qty.n
    /\ Len(stock_data) = 1

\* C2: a valid add_item sets inventory[item] to its previous quantity (0
\* when absent) plus qty, creating the key if absent and leaving the other
\* entries alone; two successive valid add_item calls on one item leave
\* get_qty at the prior quantity plus both quantities.
C2_AddAccumulates ==
    /\ (call.op = "add_item" /\ ValidCall) =>
          /\ IndexOf(stock_data, call.item.s) # 0
          /\ get_qty(stock_data, call.item)
                = get_qty(pre.stock_data, call.item) + call.qty.n
          /\ Without(stock_data, call.item.s) = Without(pre.stock_data, call.item.s)
          /\ Keys(stock_data) = Keys(pre.stock_data) \cup {call.item.s}
    /\ \A item \in Items, q1 \in AddQtys, q2 \in AddQtys :
          (ValidItem(item) /\ ValidQty(q1) /\ ValidQty(q2)) =>
             LET once == add_item(stock_data, item, q1, logs, clock)
                 twice == add_item(once.stock_data, item, q2, once.logs, clock + 1)
             IN  get_qty(twice.stock_data, item)
                   = get_qty(stock_data, item) + q1.n + q2.n

\* the second of two additions to one item, both logged
C2_Witness ==
    /\ call.op = "add_item" /\ ValidCall
    /\ Len(logs) = 2 /\ logs[1].item = logs[2].item
    /\ get_qty(pre.stock_data, call.item) > 0
    /\ get_qty(stock_data, call.item) > call.qty.n

\* C3: an add_item or remove_item call whose item is not a non-empty text
\* or whose qty is not a positive integer leaves the inventory and the log
\* as they were, raises nothing and emits a diagnostic.
C3_InvalidCallIsNoOp ==
    (IsMutation /\ ~ValidCall) =>
        /\ stock_data = pre.stock_data
        /\ logs = pre.logs
        /\ raised = "none"
        /\ call.diag # "none"

\* an addition of quantity 0 to an item in stock
C3_Witness ==
    /\ call.op = "add_item"
    /\ ValidItem(call.item) /\ call.qty = PyInt(0)
    /\ IndexOf(stock_data, call.item.s) # 0
    /\ Len(logs) > 0

\* C4: a valid remove_item of an item present with quantity c deletes the
\* key (get_qty then gives 0) when c - qty <= 0, and otherwise keeps it
\* with quantity exactly c - qty.
C4_RemoveDecrementsOrDeletes ==
    (call.op = "remove_item" /\ ValidCall
       /\ IndexOf(pre.stock_data, call.item.s) # 0) =>
        LET c == Get(pre.stock_data, call.item.s, 0)
        IN  IF c - call.qty.n <= 0
            THEN /\ call.item.s \notin Keys(stock_data)
                 /\ get_qty(stock_data, call.item) = 0
            ELSE /\ call.item.s \in Keys(stock_data)
                 /\ get_qty(stock_data, call.item) = c - call.qty.n

\* a removal that left a positive remainder
C4_Witness ==
    /\ call.op = "remove_item" /\ ValidCall
    /\ Get(pre.stock_data, call.item.s, 0) > call.qty.n
    /\ get_qty(stock_data, call.item) >= 1

\* C5: a valid remove_item of an item that is no key of the inventory
\* leaves the inventory unchanged and raises nothing.
C5_RemoveMissingIsNoOp ==
    (call.op = "remove_item" /\ ValidCall
       /\ call.item.s \notin Keys(pre.stock_data)) =>
        /\ stock_data = pre.stock_data
        /\ raised = "none"

\* a removal of a missing item from an inventory that holds another one
C5_Witness ==
    /\ call.op = "remove_item" /\ ValidCall
    /\ call.item.s \notin Keys(pre.stock_data)
    /\ Len(pre.stock_data) > 0

\* C6: the log only grows at its end, by exactly one entry (that of the
\* call) per add_item call that passes validation and by nothing on any
\* other call; its length is the number of successful additions so far.
C6_LogCountsAdditions ==
    /\ Len(logs) = added
    /\ Len(logs) >= Len(pre.logs)
    /\ SubSeq(logs, 1, Len(pre.logs)) = pre.logs
    /\ IF call.op = "add_item" /\ ValidCall
       THEN /\ Len(logs) = Len(pre.logs) + 1
            /\ logs[Len(logs)].item = call.item.s
            /\ logs[Len(logs)].qty = Format(call.qty)
       ELSE logs = pre.logs
    /\ \A i \in 1..Len(logs) : \A j \in 1..Len(logs) :
          i < j => logs[i].ts < logs[j].ts

\* a rejected addition after two logged ones
C6_Witness ==
    /\ call.op = "add_item" /\ ~ValidCall
    /\ Len(logs) = 2 /\ added = 2

\* C9: check_low_items returns exactly the items whose quantity is
\* strictly below the threshold, each once, in insertion order, and
\* leaves the inventory alone; an empty inventory gives an empty list.
C9_LowItemsExact ==
    /\ (call.op = "check_low_items") =>
          LET r == call.ret
          IN  /\ \A i \in 1..Len(r) :
                    /\ r[i] \in Keys(stock_data)
                    /\ Get(stock_data, r[i], 0) < call.th
              /\ \A i \in 1..Len(stock_data) :
                    stock_data[i].v < call.th =>
                        \E j \in 1..Len(r) : r[j] = stock_data[i].k
              /\ \A i \in 1..Len(r) : \A j \in 1..Len(r) :
                    i < j => IndexOf(stock_data, r[i]) < IndexOf(stock_data, r[j])
              /\ stock_data = pre.stock_data
              /\ (stock_data = <<>> => r = <<>>)
    /\ check_low_items(<<[k |-> <<"a">>, v |-> 2], [k |-> <<"b">>, v |-> 10],
                         [k |-> <<"c">>, v |-> 4]>>, DefaultThreshold)
          = << <<"a">>, <<"c">> >>

\* a scan that excluded an item whose quantity equals the threshold
C9_Witness ==
    /\ call.op = "check_low_items"
    /\ Len(stock_data) = 2
    /\ stock_data[2].v = call.th
    /\ call.ret = <<stock_data[1].k>>

----------------------------------------------------------------------------
(* Properties of persistence, checked under PersistSpec *)

\* C7: when save_data has completed for an inventory of string keys and
\* positive integers and nothing has written the file since, load_data of
\* a readable file returns a mapping equal to that inventory, entry for
\* entry and in the same order.
C7_RoundTrip ==
    (call.op = "load_data" /\ saved.valid /\ AllPositive(saved.inv)
       /\ pre.file.readable) =>
        /\ raised = "none"
        /\ call.ret = saved.inv
        /\ stock_data = saved.inv

\* a load after the save of two entries, one with a quote in its key and
\* one with a quantity of several digits
C7_Witness ==
    /\ call.op = "load_data" /\ saved.valid /\ AllPositive(saved.inv)
    /\ Len(saved.inv) = 2
    /\ saved.inv[1].k = <<"\"">> /\ saved.inv[2].v = 305
    /\ call.ret = saved.inv

\* the content of f is valid JSON
IsValidJSON(f) == f.kind = "text" /\ json_loads(f.text).ok

\* C8: load_data of a missing file, or of a readable file whose content is
\* not valid JSON, returns an empty mapping, raises nothing and leaves the
\* file as it was.
C8_LoadOfBadFileIsEmpty ==
    (call.op = "load_data"
       /\ (pre.file.kind = "missing" \/ (pre.file.readable /\ ~IsValidJSON(pre.file)))) =>
        /\ raised = "none"
        /\ call.ret = <<>>
        /\ file = pre.file

----------------------------------------------------------------------------
(* Property of the session, checked under MainSpec *)

\* C10: every error of a session is caught where it occurs: no call made by
\* main() ends with an exception propagated to main(), so main() is never
\* stopped before its save step.
C10_NoErrorPropagates == raised = "none"

====
